---- MODULE Spec2Model ----
(***************************************************************************)
(* A model of the Goodreads review summariser notebook (src/Demo.ipynb):   *)
(* find_review -> review_cleaning -> extract_content -> llm_summarise.     *)
(*                                                                         *)
(* Text is modelled as a sequence of one-character strings, so that the    *)
(* substring tests, replacements and casts of the code are computed and    *)
(* not assumed.  Python's None is the one-element sequence PyNone, whose   *)
(* element is not a character, so no text equals it.                       *)
(***************************************************************************)
EXTENDS Integers, Sequences, FiniteSets, TLC

\* ------------------------------------------------------------------ bounds

\* Review cards in the second ReviewsList container of a page.
MaxCards == 2
\* ReviewsList containers on a page.
MaxLists == 3
\* Spans in one ReviewerProfile__meta block (specification SpecProfile).
MaxSpans == 2
\* Comma-separated thousands groups after the leading group of a count.
MaxGroups == 2

\* ------------------------------------------------------------------- text

PyNone == <<"<None>">>

Digits == {"0", "1", "2", "3", "4", "5", "6", "7", "8", "9"}

\* What Python's str.strip() and the regex class \s take for whitespace.
Whitespace == {" ", "\n", "\t"}

DigitVal(c) ==
  CASE c = "0" -> 0 [] c = "1" -> 1 [] c = "2" -> 2 [] c = "3" -> 3
    [] c = "4" -> 4 [] c = "5" -> 5 [] c = "6" -> 6 [] c = "7" -> 7
    [] c = "8" -> 8 [] c = "9" -> 9

DigitChar(d) ==
  CASE d = 0 -> "0" [] d = 1 -> "1" [] d = 2 -> "2" [] d = 3 -> "3"
    [] d = 4 -> "4" [] d = 5 -> "5" [] d = 6 -> "6" [] d = 7 -> "7"
    [] d = 8 -> "8" [] d = 9 -> "9"

\* p occurs in s starting at position i.
OccursAt(s, p, i) ==
  /\ i >= 1
  /\ i + Len(p) - 1 <= Len(s)
  /\ \A k \in 1..Len(p) : s[i + k - 1] = p[k]

\* The position of the leftmost occurrence of p in s, 0 when there is none.
Find(s, p) ==
  LET hits == {i \in 1..(Len(s) + 1) : OccursAt(s, p, i)}
  IN  IF hits = {} THEN 0 ELSE CHOOSE i \in hits : \A j \in hits : i <= j

\* Python's `p in s`.
Contains(s, p) == Find(s, p) # 0

\* s with positions i..j replaced by v.
Splice(s, i, j, v) == SubSeq(s, 1, i - 1) \o v \o SubSeq(s, j + 1, Len(s))

\* The end of the maximal run of characters of set cs that starts at i
\* (i - 1 when s[i] is not in cs).
RunEnd(s, i, cs) ==
  LET stops == {j \in i..(Len(s) + 1) : j = Len(s) + 1 \/ s[j] \notin cs}
  IN  (CHOOSE j \in stops : \A k \in stops : j <= k) - 1

\* Python's str.strip(): leading and trailing whitespace removed.
Strip(s) ==
  LET keep == {i \in 1..Len(s) : s[i] \notin Whitespace}
  IN  IF keep = {} THEN <<>>
      ELSE SubSeq(s, CHOOSE i \in keep : \A j \in keep : i <= j,
                     CHOOSE i \in keep : \A j \in keep : i >= j)

\* Tag.get_text(strip=True) of an element holding one text node.
get_text_strip(raw) == Strip(raw)

\* ----------------------------------------------------------- find_review

\* The substrings the profile-meta spans are classified on.
pat_books == <<"b", "o", "o", "k", "s">>
pat_reviews == <<"r", "e", "v", "i", "e", "w", "s">>
pat_followers == <<"f", "o", "l", "l", "o", "w", "e", "r", "s">>
pat_Author == <<"A", "u", "t", "h", "o", "r">>

\* The defaults of the two counts, and the fallback of the rating.
NotFound == <<"N", "o", "t", " ", "F", "o", "u", "n", "d">>
NoRatingGiven == <<"N", "o", " ", "R", "a", "t", "i", "n", "g", " ", "G", "i", "v", "e", "n">>

\* check_author before any span set it (Python's False).
PyFalse == <<"<False>">>

\* The values of check_author, books_amount, reviews_amount and
\* followers_amount before the loop over the spans.
profile_defaults ==
  [check_author |-> PyFalse, books_amount |-> PyNone,
   reviews_amount |-> NotFound, followers_amount |-> NotFound]

\* The body of `for span in spans`, as a bug would have it: four
\* independent ifs, so that the last pattern a text contains wins.
classify_span_independent(acc, span_text) ==
  LET a1 == IF Contains(span_text, pat_books)
            THEN [acc EXCEPT !.books_amount = span_text] ELSE acc
      a2 == IF Contains(span_text, pat_reviews)
            THEN [a1 EXCEPT !.reviews_amount = span_text] ELSE a1
      a3 == IF Contains(span_text, pat_followers)
            THEN [a2 EXCEPT !.followers_amount = span_text] ELSE a2
  IN  IF Contains(span_text, pat_Author)
      THEN [a3 EXCEPT !.check_author = span_text] ELSE a3

\* The body of `for span in spans`, as a bug would have it: the counts are
\* classified on the singular words.
classify_span_singular(acc, span_text) ==
  IF Contains(span_text, pat_books)
  THEN [acc EXCEPT !.books_amount = span_text]
  ELSE IF Contains(span_text, SubSeq(pat_reviews, 1, 6))
  THEN [acc EXCEPT !.reviews_amount = span_text]
  ELSE IF Contains(span_text, SubSeq(pat_followers, 1, 8))
  THEN [acc EXCEPT !.followers_amount = span_text]
  ELSE IF Contains(span_text, pat_Author)
  THEN [acc EXCEPT !.check_author = span_text]
  ELSE acc

\* The body of `for span in spans`: the if/elif chain on the span's text.
classify_span(acc, span_text) ==
  IF Contains(span_text, pat_books)
  THEN [acc EXCEPT !.books_amount = span_text]
  ELSE IF Contains(span_text, pat_reviews)
  THEN [acc EXCEPT !.reviews_amount = span_text]
  ELSE IF Contains(span_text, pat_followers)
  THEN [acc EXCEPT !.followers_amount = span_text]
  ELSE IF Contains(span_text, pat_Author)
  THEN [acc EXCEPT !.check_author = span_text]
  ELSE acc

\* `for span in spans`, in document order, on the stripped text of each.
RECURSIVE scan_spans(_, _)
scan_spans(acc, spans) ==
  IF spans = <<>> THEN acc
  ELSE scan_spans(classify_span(acc, get_text_strip(Head(spans))), Tail(spans))

\* Python's bool() of check_author: False, or a text (true unless empty).
py_bool(v) == v # PyFalse /\ v # <<>>

\* The profile dictionary of one card.
profile_of(card) ==
  LET acc == scan_spans(profile_defaults, card.spans)
  IN  [Name |-> card.name,
       Link_Profile |-> card.link,
       An_Author |-> py_bool(acc.check_author),
       Books |-> acc.books_amount,
       Reviews_Amount |-> acc.reviews_amount,
       Followers_Amount |-> acc.followers_amount]

\* The rating sub-step, as a bug would have it: only a missing ShelfStatus
\* is caught, a missing RatingStars span leaves the rating unset.
rating_given_shelf_only(card) ==
  IF ~card.shelf THEN NoRatingGiven
  ELSE IF ~card.stars THEN PyNone
  ELSE card.label

\* The rating sub-step: shelf_status.find(...).get('aria-label') inside
\* try/except.  A missing ShelfStatus div or RatingStars span makes the
\* lookup raise, and the bare except sets the fallback; a RatingStars span
\* without the attribute makes .get return None, which raises nothing.
rating_given(card) ==
  IF ~card.shelf \/ ~card.stars THEN NoRatingGiven ELSE card.label

\* A card on which the loop body raises outside the try: no
\* ReviewerProfile__info section (with its anchor and meta div), or no
\* Formatted span.
card_raises(card) == ~card.hasProfile \/ card.content = PyNone

\* The dictionary of a card, as a bug would have it: Index is the 0-based
\* position.
data_of_zero_based(idx, card) ==
  [Index |-> idx,
   Profile_Info |-> profile_of(card),
   Rating |-> rating_given(card),
   Content |-> get_text_strip(card.content)]

\* The dictionary appended for the card at 0-based position idx.
data_of(idx, card) ==
  [Index |-> idx + 1,
   Profile_Info |-> profile_of(card),
   Rating |-> rating_given(card),
   Content |-> get_text_strip(card.content)]

\* reviews_list[1], as a bug would have it: the first container is taken.
second_list_missing_first(page) == page.lists < 1

\* reviews_list[1] raises IndexError: fewer than two ReviewsList divs.
second_list_missing(page) == page.lists < 2

\* find_review: what it returns, or that it raised.  Nothing is returned
\* when it raises: all_reviews is a local of the call.
find_review(page) ==
  IF \/ ~page.net
     \/ ~page.hasTitle
     \/ ~page.hasAuthor
     \/ second_list_missing(page)
     \/ \E i \in 1..Len(page.cards) : card_raises(page.cards[i])
  THEN [raised |-> TRUE, title |-> "", author |-> "", review |-> <<>>]
  ELSE [raised |-> FALSE, title |-> page.title, author |-> page.author,
        review |-> [i \in 1..Len(page.cards) |-> data_of(i - 1, page.cards[i])]]

\* ------------------------------------------------- Int32 and Float64 values

\* The largest value of polars' Int32.
Int32Max == 2147483647

\* The bits of the significand of polars' Float64 (an IEEE 754 double).
F64Precision == 53

\* A value of a polars column: null, or an integer.
Null == [null |-> TRUE, val |-> 0]
Some(n) == [null |-> FALSE, val |-> n]

\* The outcome of an expression on one row: it raises, or gives a value.
Raise == [err |-> TRUE, null |-> TRUE, val |-> 0]
Ok(v) == [err |-> FALSE, null |-> v.null, val |-> v.val]

\* TLC hands an operator its arguments unevaluated and, when it measures
\* coverage, evaluates an argument anew at each use.  The operators below
\* that use an argument several times therefore bind its value first, as
\* the one element of a set: {e(x) : x \in {arg}}.
The(S) == CHOOSE r \in S : TRUE

\* The value of a run of decimal digits, -1 when it exceeds Int32Max.
RECURSIVE digits_value(_, _)
digits_value(ds, acc0) ==
  The({IF ds = <<>> THEN acc
       ELSE IF acc > (Int32Max - DigitVal(Head(ds))) \div 10 THEN -1
       ELSE digits_value(Tail(ds), acc * 10 + DigitVal(Head(ds))) :
       acc \in {acc0}})

\* The decimal digits of a natural number.
RECURSIVE int_to_str(_)
int_to_str(n) ==
  IF n < 10 THEN <<DigitChar(n)>>
  ELSE Append(int_to_str(n \div 10), DigitChar(n % 10))

\* Natural numbers beyond 32 bits (a double's significand has 53), as
\* sequences of limbs in base LimbBase, least significant first.
LimbBits == 5 + 5
LimbBase == 2 ^ LimbBits

\* b * c + carry, for small c and carry.
RECURSIVE big_mul_add(_, _, _)
big_mul_add(b0, c, carry0) ==
  The({IF b = <<>>
       THEN IF carry = 0 THEN <<>>
            ELSE <<carry % LimbBase>> \o big_mul_add(<<>>, c, carry \div LimbBase)
       ELSE <<(Head(b) * c + carry) % LimbBase>>
              \o big_mul_add(Tail(b), c, (Head(b) * c + carry) \div LimbBase) :
       b \in {b0}, carry \in {carry0}})

\* The number a run of decimal digits writes.
RECURSIVE big_of_digits(_, _)
big_of_digits(ds, acc) ==
  IF ds = <<>> THEN acc
  ELSE big_of_digits(Tail(ds), big_mul_add(acc, 10, DigitVal(Head(ds))))

\* The number of bits of a small number, and of a big one.
bit_len(n) == CHOOSE k \in 0..31 : n < 2 ^ k /\ (k = 0 \/ n >= 2 ^ (k - 1))

big_len(b0) ==
  The({LET set == {i \in 1..Len(b) : b[i] # 0}
           top == CHOOSE i \in set : \A j \in set : i >= j
       IN  IF set = {} THEN 0 ELSE (top - 1) * LimbBits + bit_len(b[top]) :
       b \in {b0}})

\* floor(b / d) and whether the division left a remainder, for a small d:
\* long division from the highest limb down.
RECURSIVE big_div_step(_, _, _, _, _)
big_div_step(b, d, i, r0, q0) ==
  The({IF i = 0 THEN [q |-> q, inexact |-> r # 0]
       ELSE big_div_step(b, d, i - 1, (r * LimbBase + b[i]) % d,
                         <<(r * LimbBase + b[i]) \div d>> \o q) :
       r \in {r0}, q \in {q0}})

big_div(b0, d) ==
  The({big_div_step(b, d, Len(b), 0, <<>>) : b \in {b0}})

\* b * 2^k.
big_shl(b, k) ==
  [i \in 1..(k \div LimbBits) |-> 0] \o big_mul_add(b, 2 ^ (k % LimbBits), 0)

\* floor(b / 2^k), and whether bits were lost.
big_shr(b0, k) ==
  The({LET a == k \div LimbBits
           r == big_div(SubSeq(b, a + 1, Len(b)), 2 ^ (k % LimbBits))
       IN  [q |-> r.q,
            inexact |-> r.inexact \/ \E i \in 1..a : i <= Len(b) /\ b[i] # 0] :
       b \in {b0}})

\* 10^f.
RECURSIVE pow10(_)
pow10(f) == IF f = 0 THEN 1 ELSE 10 * pow10(f - 1)

\* b rounded to F64Precision bits, ties to even: the significand m and the
\* number s of bits dropped, so that the double is m * 2^s.  `sticky` says
\* that the exact value lies above b.
big_round(b0, sticky) ==
  The({IF len <= F64Precision THEN [m |-> b, s |-> 0]
       ELSE The({The({[m |-> IF q.inexact /\ (sticky \/ h.inexact \/ q.q[1] % 2 = 1)
                             THEN big_mul_add(q.q, 1, 1) ELSE q.q,
                       s |-> len - F64Precision] :
                      q \in {big_div(h.q, 2)}}) :
                 h \in {big_shr(b, len - F64Precision - 1)}}) :
       b \in {b0}, len \in {big_len(b0)}})

\* The value of b when it fits Int32, -1 otherwise.
RECURSIVE big_value_from(_, _, _)
big_value_from(b, i, acc0) ==
  The({IF i = 0 THEN acc
       ELSE IF acc > (Int32Max - b[i]) \div LimbBase THEN -1
       ELSE big_value_from(b, i - 1, acc * LimbBase + b[i]) :
       acc \in {acc0}})

big_value(b0) == The({big_value_from(b, Len(b), 0) : b \in {b0}})

\* The nearest double to the decimal number int_digits.frac_digits, as a
\* significand m and an exponent e: m * 2^e.  Zero has m = <<>>.
f64_of_decimal(int_digits, frac_digits) ==
  LET guard == F64Precision + 4 * Len(frac_digits) + 1
  IN  The({The({[m |-> x.m, e |-> x.s - guard] :
                x \in {big_round(scaled.q, scaled.inexact)}}) :
           scaled \in {big_div(big_shl(big_of_digits(int_digits \o frac_digits, <<>>),
                                       guard),
                               pow10(Len(frac_digits)))}})

\* The double x0 * 1000: the exact product, rounded to a double.
f64_times_1000(x0) ==
  The({The({[m |-> y.m, e |-> x.e + y.s] :
            y \in {big_round(big_mul_add(x.m, 1000, 0), FALSE)}}) :
       x \in {x0}})

\* cast(pl.Int32) of a double that is not negative: the fraction is
\* dropped, and a value beyond Int32 raises.
f64_to_int32(y0) ==
  The({The({IF v < 0 THEN Raise ELSE Ok(Some(v)) :
            v \in {IF y.e >= 0 THEN big_value(big_shl(y.m, y.e))
                   ELSE big_value(big_shr(y.m, 0 - y.e).q)}}) :
       y \in {y0}})

\* (number.cast(Float64) * 1000).cast(Int32) for the decimal number
\* int_digits.frac_digits.
f64_times_1000_to_int32(int_digits, frac_digits) ==
  f64_to_int32(f64_times_1000(f64_of_decimal(int_digits, frac_digits)))

\* ------------------------------------------------------- review_cleaning

\* polars' str.replace(pattern, value) for a pattern without regex
\* operators: the first occurrence is replaced (n = 1), a null stays null.
str_replace(s0, p, v) ==
  The({IF s = PyNone \/ ~Contains(s, p) THEN s
       ELSE Splice(s, Find(s, p), Find(s, p) + Len(p) - 1, v) :
       s \in {s0}})

\* cast(pl.Int32) of a text column, as a bug would have it: not strict, an
\* unparseable text becomes null.
cast_str_int32_lenient(s0) ==
  The({IF s = PyNone \/ s = <<>> \/ \E i \in 1..Len(s) : s[i] \notin Digits
       THEN Ok(Null)
       ELSE IF digits_value(s, 0) < 0 THEN Ok(Null)
       ELSE Ok(Some(digits_value(s, 0))) :
       s \in {s0}})

\* cast(pl.Int32) of a text column (strict, the default): null stays null,
\* a run of digits within Int32 is its value, any other text raises.  (The
\* texts of the model carry no sign.)
cast_str_int32(s0) ==
  The({IF s = PyNone THEN Ok(Null)
       ELSE IF s = <<>> \/ \E i \in 1..Len(s) : s[i] \notin Digits THEN Raise
       ELSE IF digits_value(s, 0) < 0 THEN Raise
       ELSE Ok(Some(digits_value(s, 0))) :
       s \in {s0}})

\* The five replaces of 'Reviews Amount', before the cast.
reviews_amount_text(s) ==
  str_replace(
    str_replace(
      str_replace(
        str_replace(
          str_replace(s, pat_reviews, <<>>),
          <<"r", "e", "v", "i", "e", "w">>, <<>>),
        <<" ">>, <<>>),
      <<",">>, <<>>),
    <<"N", "o", "t", "F", "o", "u", "n", "d">>, <<"0">>)

\* The column expression of 'Reviews Amount'.
reviews_amount_expr(s) == cast_str_int32(reviews_amount_text(s))

\* A match of \d+(?:\.\d+)? that starts at position i: the digits before
\* and after the point, and the last position of the match.
number_at(s, i) ==
  LET e1 == RunEnd(s, i, Digits)
      pt == e1 + 2 <= Len(s) /\ s[e1 + 1] = "." /\ s[e1 + 2] \in Digits
      e2 == IF pt THEN RunEnd(s, e1 + 2, Digits) ELSE e1
  IN  [int |-> SubSeq(s, i, e1),
       frac |-> IF pt THEN SubSeq(s, e1 + 2, e2) ELSE <<>>,
       end |-> e2]

\* str.extract(r'(\d+(?:\.\d+)?)', group_index=1): the leftmost number of
\* the text, or nothing.
first_number(s) ==
  LET at == {i \in 1..Len(s) : s[i] \in Digits}
  IN  IF s = PyNone \/ at = {} THEN [found |-> FALSE, int |-> <<>>, frac |-> <<>>]
      ELSE LET n == number_at(s, CHOOSE i \in at : \A j \in at : i <= j)
           IN  [found |-> TRUE, int |-> n.int, frac |-> n.frac]

\* The last position of a match of (\d+(?:\.\d+)?)[kK]\s+followers that
\* starts at position i, 0 when there is none.  Each repetition takes its
\* maximal run: a shorter one is followed by a character of the same class,
\* which the next item of the pattern does not accept.
k_followers_end(s, i) ==
  IF i > Len(s) \/ s[i] \notin Digits THEN 0
  ELSE LET k == number_at(s, i).end + 1
           w == RunEnd(s, k + 1, Whitespace)
       IN  IF /\ k <= Len(s)
              /\ s[k] \in {"k", "K"}
              /\ w >= k + 1
              /\ OccursAt(s, pat_followers, w + 1)
           THEN w + Len(pat_followers)
           ELSE 0

\* The leftmost match of the pattern in the text.
k_followers_match(s) ==
  LET at == {i \in 1..Len(s) : k_followers_end(s, i) # 0}
      i0 == CHOOSE i \in at : \A j \in at : i <= j
  IN  IF s = PyNone \/ at = {} THEN [found |-> FALSE, start |-> 0, end |-> 0]
      ELSE [found |-> TRUE, start |-> i0, end |-> k_followers_end(s, i0)]

\* The replacement value of the first replace of 'Followers Amount':
\* (first number of the text as Float64 * 1000) cast to Int32, null when
\* the text holds no number.
followers_replacement(s) ==
  The({IF num.found THEN f64_times_1000_to_int32(num.int, num.frac)
       ELSE Ok(Null) :
       num \in {first_number(s)}})

\* The five replaces of 'Followers Amount', before the cast.  The
\* replacement value stands in the text as its decimal digits; a text the
\* pattern does not match is taken to pass the first replace unchanged.
followers_amount_text(s) ==
  The({str_replace(
         str_replace(
           str_replace(
             str_replace(
               IF m.found
               THEN Splice(s, m.start, m.end, int_to_str(value.val))
               ELSE s,
               pat_followers, <<>>),
             <<"f", "o", "l", "l", "o", "w", "e", "r">>, <<>>),
           <<" ">>, <<>>),
         <<",">>, <<>>) :
       value \in {followers_replacement(s)}, m \in {k_followers_match(s)}})

\* The column expression of 'Followers Amount'.  The replacement value is
\* computed on every row, matching or not, and raises when it does not fit
\* Int32.
followers_amount_expr(s) ==
  IF followers_replacement(s).err THEN Raise
  ELSE cast_str_int32(followers_amount_text(s))

\* str.extract on 'Rating', as a bug would have it: the pattern is \d+
\* alone, so the first number of any text is taken.
rating_extract_any_number(s) ==
  IF first_number(s).found THEN first_number(s).int ELSE PyNone

\* str.extract(r'Rating (\d+) out of'): the digits of the leftmost match,
\* null when the text is null or nothing matches.
rating_extract(s) ==
  LET head == <<"R", "a", "t", "i", "n", "g", " ">>
      tail == <<" ", "o", "u", "t", " ", "o", "f">>
      ok(i) == /\ OccursAt(s, head, i)
               /\ RunEnd(s, i + Len(head), Digits) >= i + Len(head)
               /\ OccursAt(s, tail, RunEnd(s, i + Len(head), Digits) + 1)
      at == {i \in 1..Len(s) : ok(i)}
      i0 == CHOOSE i \in at : \A j \in at : i <= j
  IN  IF s = PyNone \/ at = {} THEN PyNone
      ELSE SubSeq(s, i0 + Len(head), RunEnd(s, i0 + Len(head), Digits))

\* The column expression of 'Rating'.
rating_expr(s) == cast_str_int32(rating_extract(s))

\* The three casts of one row.
clean_row(r) ==
  [Name |-> r.Profile_Info.Name,
   Reviews_Amount |-> reviews_amount_expr(r.Profile_Info.Reviews_Amount),
   Followers_Amount |-> followers_amount_expr(r.Profile_Info.Followers_Amount),
   Rating |-> rating_expr(r.Rating),
   Content |-> r.Content]

row_raises(c) == c.Reviews_Amount.err \/ c.Followers_Amount.err \/ c.Rating.err

\* review_cleaning: the table it returns, or that it raised.  The three
\* expressions run over whole columns, so one row that raises fails the
\* call; an empty list makes a frame without columns, on which
\* unnest('Profile Info') raises.
review_cleaning(review) ==
  The({IF review = <<>> \/ \E i \in 1..Len(rows) : row_raises(rows[i])
       THEN [raised |-> TRUE, df |-> <<>>]
       ELSE [raised |-> FALSE,
             df |-> [i \in 1..Len(rows) |->
                       [Name |-> rows[i].Name,
                        Reviews_Amount |-> Some(rows[i].Reviews_Amount.val),
                        Followers_Amount |-> Some(rows[i].Followers_Amount.val),
                        Rating |-> IF rows[i].Rating.null THEN Null
                                   ELSE Some(rows[i].Rating.val),
                        Content |-> rows[i].Content]]] :
       rows \in {[i \in 1..Len(review) |-> clean_row(review[i])]}})

\* ------------------------------------------------------- extract_content

\* str.join(sep) over a column, as a bug would have it: no separator.
RECURSIVE str_join_nosep(_, _)
str_join_nosep(texts, sep) ==
  IF texts = <<>> THEN <<>>
  ELSE Head(texts) \o str_join_nosep(Tail(texts), sep)

\* str.join(sep) over a column of texts, in row order.
RECURSIVE str_join(_, _)
str_join(texts, sep) ==
  IF texts = <<>> THEN <<>>
  ELSE IF Len(texts) = 1 THEN Head(texts)
  ELSE Head(texts) \o sep \o str_join(Tail(texts), sep)

\* extract_content: the 'Content' column joined by a newline.
extract_content(df) == str_join([i \in 1..Len(df) |-> df[i].Content], <<"\n">>)

\* --------------------------------------------------------- llm_summarise

\* What the model call can come back with: a text, or an exception (the
\* endpoint is unreachable or answers with an error).
LlmAnswers == {"summary A", "summary B"}

\* ----------------------------------------------------------------- inputs

\* All sequences over S of length at most n.
RECURSIVE SeqsUpTo(_, _)
SeqsUpTo(S, n) ==
  IF n = 0 THEN {<<>>}
  ELSE LET shorter == SeqsUpTo(S, n - 1)
       IN  shorter \cup {Append(s, x) : s \in {q \in shorter : Len(q) = n - 1}, x \in S}

\* Texts of profile-meta spans.
span_102_books == <<"1", "0", "2", " ", "b", "o", "o", "k", "s">>
span_5_reviews == <<"5", " ", "r", "e", "v", "i", "e", "w", "s">>
span_12k_followers == <<"1", ".", "2", "k", " ", "f", "o", "l", "l", "o", "w", "e", "r", "s">>
span_3_followers == <<"3", " ", "f", "o", "l", "l", "o", "w", "e", "r", "s">>
span_12_reviews == <<"1", "2", " ", "r", "e", "v", "i", "e", "w", "s">>
span_about_5_reviews == <<"a", "b", "o", "u", "t", " ", "5", " ", "r", "e", "v", "i", "e", "w", "s">>
span_1_review == <<"1", " ", "r", "e", "v", "i", "e", "w">>
span_1_follower == <<"1", " ", "f", "o", "l", "l", "o", "w", "e", "r">>
span_Author == <<"A", "u", "t", "h", "o", "r">>
span_Author_of_3_books == <<"A", "u", "t", "h", "o", "r", " ", "o", "f", " ", "3", " ", "b", "o", "o", "k", "s">>
span_reviews_and_followers == <<"5", " ", "r", "e", "v", "i", "e", "w", "s", ",", " ", "3", " ", "f", "o", "l", "l", "o", "w", "e", "r", "s">>
span_padded_7_reviews == <<" ", "7", " ", "r", "e", "v", "i", "e", "w", "s", "\n">>
span_Goodreads == <<"G", "o", "o", "d", "r", "e", "a", "d", "s">>

\* aria-labels of the RatingStars span.
label_5_of_5 == <<"R", "a", "t", "i", "n", "g", " ", "5", " ", "o", "u", "t", " ", "o", "f", " ", "5">>
label_amazing == <<"i", "t", " ", "w", "a", "s", " ", "a", "m", "a", "z", "i", "n", "g">>

\* Texts of the Formatted span.
text_loved == <<"L", "o", "v", "e", "d", " ", "t", "h", "e", " ", "p", "a", "c", "i", "n", "g", ".">>
text_flat == <<"C", "h", "a", "r", "a", "c", "t", "e", "r", "s", " ", "f", "e", "l", "t", " ", "f", "l", "a", "t", ".">>
text_padded == <<"\n", " ", " ", "L", "o", "v", "e", "d", " ", "t", "h", "e", " ", "p", "a", "c", "i", "n", "g", ".", " ">>
text_two_lines == <<"S", "l", "o", "w", ".", "\n", "F", "l", "a", "t", ".">>

\* The card the others vary: every element present.
AliceCard ==
  [hasProfile |-> TRUE, name |-> "Alice", link |-> "/user/show/1",
   spans |-> <<span_102_books, span_5_reviews, span_12k_followers>>,
   shelf |-> TRUE, stars |-> TRUE, label |-> label_5_of_5,
   content |-> text_loved]

\* A card with one followers span and no rating control.
BobCard ==
  [hasProfile |-> TRUE, name |-> "Bob", link |-> "/user/show/2",
   spans |-> <<span_3_followers>>,
   shelf |-> FALSE, stars |-> FALSE, label |-> PyNone,
   content |-> text_flat]

\* The rating controls of a card: the ShelfStatus div, the RatingStars span
\* in it, and the span's aria-label (PyNone: no such attribute).
RatingControls ==
  {[shelf |-> TRUE, stars |-> TRUE, label |-> label_5_of_5],
   [shelf |-> TRUE, stars |-> TRUE, label |-> label_amazing],
   [shelf |-> TRUE, stars |-> TRUE, label |-> PyNone],
   [shelf |-> TRUE, stars |-> FALSE, label |-> PyNone],
   [shelf |-> FALSE, stars |-> FALSE, label |-> PyNone]}

\* The span lists of the cards of specification Spec.
SpanLists ==
  {<<span_102_books, span_5_reviews, span_12k_followers>>,
   <<span_3_followers>>,
   <<span_12_reviews>>,
   <<span_about_5_reviews, span_3_followers>>}

\* The Formatted span of a card: its text, or PyNone when there is none.
Contents == {text_loved, text_padded, text_two_lines, <<>>, PyNone}

\* The cards of specification Spec: AliceCard with one part varied, and
\* BobCard.
Cards ==
  {[AliceCard EXCEPT !.spans = s] : s \in SpanLists}
    \cup {[AliceCard EXCEPT !.shelf = r.shelf, !.stars = r.stars, !.label = r.label] :
            r \in RatingControls}
    \cup {[AliceCard EXCEPT !.content = c] : c \in Contents}
    \cup {[AliceCard EXCEPT !.hasProfile = FALSE], BobCard}

\* A page: whether the request came back, whether the title and the author
\* elements are there, the number of ReviewsList containers, and the cards
\* of the second one (none when there is no second one).
PageOf(lists, cards) ==
  [net |-> TRUE, hasTitle |-> TRUE, hasAuthor |-> TRUE,
   title |-> "The Book", author |-> "A. Writer",
   lists |-> lists, cards |-> cards]

Pages ==
  {PageOf(n, <<>>) : n \in 0..1}
    \cup {PageOf(n, cs) : n \in 2..MaxLists, cs \in SeqsUpTo(Cards, MaxCards)}
    \cup {[PageOf(MaxLists, <<AliceCard>>) EXCEPT !.net = FALSE],
          [PageOf(MaxLists, <<AliceCard>>) EXCEPT !.hasTitle = FALSE],
          [PageOf(MaxLists, <<AliceCard>>) EXCEPT !.hasAuthor = FALSE]}

\* The span texts of specification SpecProfile, as they stand in the page.
SpanTexts ==
  {span_102_books, span_5_reviews, span_1_review, span_3_followers,
   span_1_follower, span_12k_followers, span_Author, span_Author_of_3_books,
   span_reviews_and_followers, span_padded_7_reviews, span_Goodreads}

\* The pages of specification SpecProfile: one card, its spans varied.
ProfilePages ==
  {PageOf(2, <<[AliceCard EXCEPT !.spans = s]>>) : s \in SeqsUpTo(SpanTexts, MaxSpans)}

\* Count texts: a head of one to three digits, then up to MaxGroups comma
\* groups of three digits.
CountHeads == {<<"1">>, <<"1", "2">>, <<"2", "5", "0">>}
CommaGroups ==
  {<<",", "0", "0", "0">>, <<",", "2", "3", "4">>, <<",", "5", "6", "7">>}

RECURSIVE GroupRuns(_)
GroupRuns(n) ==
  IF n = 0 THEN {<<>>}
  ELSE LET shorter == GroupRuns(n - 1)
       IN  shorter \cup {g \o r : g \in CommaGroups,
                                  r \in {q \in shorter : Len(q) = 4 * (n - 1)}}

CountTexts == {<<"0">>} \cup {h \o r : h \in CountHeads, r \in GroupRuns(MaxGroups)}

\* Numbers before a k: digits, with or without a decimal part.
KNumbers ==
  {[int |-> <<"1">>, frac |-> <<"5">>],
   [int |-> <<"1">>, frac |-> <<"2">>],
   [int |-> <<"3", "2">>, frac |-> <<"3">>],
   [int |-> <<"1", "2">>, frac |-> <<>>],
   [int |-> <<"2">>, frac |-> <<"0", "1">>],
   [int |-> <<"1">>, frac |-> <<"0", "0", "1">>],
   [int |-> <<"0">>, frac |-> <<"5">>]}

KText(k) == k.int \o (IF k.frac = <<>> THEN <<>> ELSE <<".">> \o k.frac)

word_review == <<" ", "r", "e", "v", "i", "e", "w">>
word_reviews == <<" ", "r", "e", "v", "i", "e", "w", "s">>
word_follower == <<" ", "f", "o", "l", "l", "o", "w", "e", "r">>
word_followers == <<" ", "f", "o", "l", "l", "o", "w", "e", "r", "s">>

\* 'Reviews Amount' values handed to review_cleaning.
ReviewsRaws ==
  {n \o w : n \in CountTexts, w \in {word_review, word_reviews}}
    \cup {NotFound, span_about_5_reviews,
          <<"2", "1", "4", "7", "4", "8", "3", "6", "4", "8">> \o word_reviews}

\* 'Followers Amount' values handed to review_cleaning.
FollowersRaws ==
  {n \o w : n \in CountTexts, w \in {word_follower, word_followers}}
    \cup {KText(k) \o c \o word_followers : k \in KNumbers, c \in {<<"k">>, <<"K">>}}
    \cup {NotFound, span_reviews_and_followers,
          <<"9", "9", "9", "9", "9", "9", "9">> \o <<"k">> \o word_followers}

\* 'Rating' values handed to review_cleaning.
label_4_of_5 == <<"R", "a", "t", "i", "n", "g", " ", "4", " ", "o", "u", "t", " ", "o", "f", " ", "5">>
label_0_of_5 == <<"R", "a", "t", "i", "n", "g", " ", "0", " ", "o", "u", "t", " ", "o", "f", " ", "5">>
label_7_of_5 == <<"R", "a", "t", "i", "n", "g", " ", "7", " ", "o", "u", "t", " ", "o", "f", " ", "5">>
label_10_of_10 == <<"R", "a", "t", "i", "n", "g", " ", "1", "0", " ", "o", "u", "t", " ", "o", "f", " ", "1", "0">>
label_huge_of_5 == <<"R", "a", "t", "i", "n", "g", " ", "9", "9", "9", "9", "9", "9", "9", "9", "9", "9", "9", " ", "o", "u", "t", " ", "o", "f", " ", "5">>
label_4_stars == <<"4", " ", "s", "t", "a", "r", "s">>
label_Rating_of_5 == <<"R", "a", "t", "i", "n", "g", " ", "o", "u", "t", " ", "o", "f", " ", "5">>

RatingRaws ==
  {label_5_of_5, label_4_of_5, label_0_of_5, label_7_of_5, label_10_of_10,
   label_huge_of_5, label_4_stars, label_Rating_of_5, label_amazing,
   NoRatingGiven, PyNone}

\* One dictionary of the list handed to review_cleaning.
RawRow(reviews, followers, rating) ==
  [Index |-> 1,
   Profile_Info |-> [Name |-> "Alice", Link_Profile |-> "/user/show/1",
                     An_Author |-> FALSE, Books |-> PyNone,
                     Reviews_Amount |-> reviews, Followers_Amount |-> followers],
   Rating |-> rating,
   Content |-> text_loved]

\* The lists of specification SpecClean: one row, one of its three raw
\* values varied.
RawReviews ==
  {<<RawRow(r, span_3_followers, label_5_of_5)>> : r \in ReviewsRaws}
    \cup {<<RawRow(span_5_reviews, f, label_5_of_5)>> : f \in FollowersRaws}
    \cup {<<RawRow(span_5_reviews, span_3_followers, g)>> : g \in RatingRaws}

\* ------------------------------------------------------------------ state

VARIABLES
  pc,       \* the cell to run next, "done", or "aborted" after an exception
  page,     \* what the URL serves
  title, author, review, df, content, ans,   \* the notebook's names
  bound,    \* the names the notebook has bound so far
  runs,     \* how many times each stage was entered
  raised    \* the stage whose exception ended the run, or "none"

vars == <<pc, page, title, author, review, df, content, ans, bound, runs, raised>>

Stages == <<"fetch", "find_review", "review_cleaning", "extract_content", "llm_summarise">>

StageSet == {Stages[i] : i \in 1..Len(Stages)}

Unbound ==
  /\ title = ""
  /\ author = ""
  /\ review = <<>>
  /\ df = <<>>
  /\ content = <<>>
  /\ ans = ""
  /\ bound = {}
  /\ runs = [s \in StageSet |-> 0]
  /\ raised = "none"

\* The kernel after the definitions, before the first pipeline cell runs.
Init ==
  /\ pc = "find_review"
  /\ page \in Pages
  /\ Unbound

\* title, author, review = find_review(url).  requests.get raises when the
\* request cannot complete; the parsing follows only when it came back.
RunFindReview ==
  /\ pc = "find_review"
  /\ \E r \in {find_review(page)} :
         /\ runs' = [runs EXCEPT !["fetch"] = @ + 1,
                                 !["find_review"] = IF page.net THEN @ + 1 ELSE @]
         /\ IF r.raised
            THEN /\ pc' = "aborted"
                 /\ raised' = IF page.net THEN "find_review" ELSE "fetch"
                 /\ UNCHANGED <<title, author, review, bound>>
            ELSE /\ pc' = "review_cleaning"
                 /\ title' = r.title
                 /\ author' = r.author
                 /\ review' = r.review
                 /\ bound' = bound \cup {"title", "author", "review"}
                 /\ UNCHANGED raised
  /\ UNCHANGED <<page, df, content, ans>>

\* df = review_cleaning(review)
RunReviewCleaning ==
  /\ pc = "review_cleaning"
  /\ \E r \in {review_cleaning(review)} :
         /\ runs' = [runs EXCEPT !["review_cleaning"] = @ + 1]
         /\ IF r.raised
            THEN /\ pc' = "aborted"
                 /\ raised' = "review_cleaning"
                 /\ UNCHANGED <<df, bound>>
            ELSE /\ pc' = "extract_content"
                 /\ df' = r.df
                 /\ bound' = bound \cup {"df"}
                 /\ UNCHANGED raised
  /\ UNCHANGED <<page, title, author, review, content, ans>>

\* content = extract_content(df)
RunExtractContent ==
  /\ pc = "extract_content"
  /\ runs' = [runs EXCEPT !["extract_content"] = @ + 1]
  /\ content' = extract_content(df)
  /\ bound' = bound \cup {"content"}
  /\ pc' = "llm_summarise"
  /\ UNCHANGED <<page, title, author, review, df, ans, raised>>

\* ans = llm_summarise(content): one call of the model, which answers or
\* raises.
RunLlmSummarise ==
  /\ pc = "llm_summarise"
  /\ runs' = [runs EXCEPT !["llm_summarise"] = @ + 1]
  /\ \/ /\ \E a \in LlmAnswers : ans' = a
        /\ bound' = bound \cup {"ans"}
        /\ pc' = "done"
        /\ UNCHANGED raised
     \/ /\ pc' = "aborted"
        /\ raised' = "llm_summarise"
        /\ UNCHANGED <<ans, bound>>
  /\ UNCHANGED <<page, title, author, review, df, content>>

Next ==
  \/ RunFindReview
  \/ RunReviewCleaning
  \/ RunExtractContent
  \/ RunLlmSummarise

\* The notebook run from its first pipeline cell to its last.
Spec == Init /\ [][Next]_vars

\* The same run on the pages of one card with varied profile spans.
InitProfile ==
  /\ pc = "find_review"
  /\ page \in ProfilePages
  /\ Unbound

SpecProfile == InitProfile /\ [][Next]_vars

\* review_cleaning called on a list of dictionaries, as its signature
\* allows: the names find_review binds are not needed for the call.
NoPage == "no page"

InitClean ==
  /\ pc = "review_cleaning"
  /\ page = NoPage
  /\ review \in RawReviews
  /\ title = ""
  /\ author = ""
  /\ df = <<>>
  /\ content = <<>>
  /\ ans = ""
  /\ bound = {"review"}
  /\ runs = [s \in StageSet |-> 0]
  /\ raised = "none"

NextClean == RunReviewCleaning

SpecClean == InitClean /\ [][NextClean]_vars

\* ----------------------------------------------------------------- claims

\* What each stage binds when it completes.
StageOutputs(stage) ==
  CASE stage = "fetch" -> {}
    [] stage = "find_review" -> {"title", "author", "review"}
    [] stage = "review_cleaning" -> {"df"}
    [] stage = "extract_content" -> {"content"}
    [] stage = "llm_summarise" -> {"ans"}

\* find_review, resp. review_cleaning, has returned in this run.
FoundReviews == runs["find_review"] = 1 /\ raised \notin {"fetch", "find_review"}
Cleaned == runs["review_cleaning"] = 1 /\ "df" \in bound

\* A card with the elements the loop body reads outside the try.
WellFormedCard(c) == c.hasProfile /\ c.content # PyNone

\* C1: for every page that is served, has its title and author elements
\* and a second ReviewsList container whose N cards are all well formed,
\* find_review returns N dictionaries, the i-th with Index = i and with the
\* name, link, profile counts and stripped content of the i-th card.
C1_IndexOneToN ==
  (/\ runs["fetch"] = 1
   /\ page.net /\ page.hasTitle /\ page.hasAuthor
   /\ page.lists >= 2
   /\ \A i \in 1..Len(page.cards) : WellFormedCard(page.cards[i]))
  => /\ FoundReviews
     /\ Len(review) = Len(page.cards)
     /\ \A i \in 1..Len(review) :
          /\ review[i].Index = i
          /\ review[i].Profile_Info = profile_of(page.cards[i])
          /\ review[i].Profile_Info.Name = page.cards[i].name
          /\ review[i].Profile_Info.Link_Profile = page.cards[i].link
          /\ review[i].Content = Strip(page.cards[i].content)
     /\ {review[i].Index : i \in 1..Len(review)} = 1..Len(page.cards)

\* Two different cards were extracted, in document order.
C1_Witness ==
  /\ FoundReviews
  /\ Len(review) = 2
  /\ review[2].Index = 2
  /\ review[1].Profile_Info.Name = "Bob"
  /\ review[2].Profile_Info.Name = "Alice"

\* The patterns in the order the code tests them, and the first and the
\* last of them that a text contains ("none": it contains none).
FirstPat(t) ==
  IF Contains(t, pat_books) THEN "books"
  ELSE IF Contains(t, pat_reviews) THEN "reviews"
  ELSE IF Contains(t, pat_followers) THEN "followers"
  ELSE IF Contains(t, pat_Author) THEN "Author"
  ELSE "none"

LastPat(t) ==
  IF Contains(t, pat_Author) THEN "Author"
  ELSE IF Contains(t, pat_followers) THEN "followers"
  ELSE IF Contains(t, pat_reviews) THEN "reviews"
  ELSE IF Contains(t, pat_books) THEN "books"
  ELSE "none"

\* The value of the field of pattern pat after the spans were scanned,
\* when Pat(text) names the one field a span sets: the text of the last
\* span that sets it, or the default.
FieldBy(Pat(_), spans, pat, default) ==
  LET at == {i \in 1..Len(spans) : Pat(Strip(spans[i])) = pat}
  IN  IF at = {} THEN default
      ELSE Strip(spans[CHOOSE i \in at : \A j \in at : i >= j])

ProfileBy(Pat(_), card, profile) ==
  /\ profile.Books = FieldBy(Pat, card.spans, "books", PyNone)
  /\ profile.Reviews_Amount = FieldBy(Pat, card.spans, "reviews", NotFound)
  /\ profile.Followers_Amount = FieldBy(Pat, card.spans, "followers", NotFound)
  /\ profile.An_Author = (FieldBy(Pat, card.spans, "Author", PyFalse) # PyFalse)

\* C2, as amended: a span sets the field of the FIRST pattern, in the order
\* books, reviews, followers, Author, that its text contains, and no other
\* field; a later span that sets the same field overrides an earlier one.
C2_FirstMatchingPatternWins ==
  FoundReviews =>
    \A i \in 1..Len(review) : ProfileBy(FirstPat, page.cards[i], review[i].Profile_Info)

\* A span that contains both "Author" and "books" was scanned: it set
\* Books and left An Author false.
C2_Witness ==
  /\ FoundReviews
  /\ page.cards[1].spans = <<span_Author_of_3_books>>
  /\ review[1].Profile_Info.Books = span_Author_of_3_books
  /\ ~review[1].Profile_Info.An_Author

\* C2, as the claim states it: a span sets the field of the LAST pattern
\* in that order that its text contains.
C2_LastMatchingPatternWins ==
  FoundReviews =>
    \A i \in 1..Len(review) : ProfileBy(LastPat, page.cards[i], review[i].Profile_Info)

\* The page with the rating control of card i put in place.
WithRatingControl(p, i) ==
  [p EXCEPT !.cards[i].shelf = TRUE, !.cards[i].stars = TRUE,
            !.cards[i].label = label_5_of_5]

NotAnInteger(t) == t = <<>> \/ \E k \in 1..Len(t) : t[k] \notin Digits

\* A match of Rating (\d+) out of at positions i..j of the digits.
RatingMatchAt(g, i, j) ==
  /\ OccursAt(g, <<"R", "a", "t", "i", "n", "g", " ">>, i - 7)
  /\ i <= j
  /\ j <= Len(g)
  /\ \A k \in i..j : g[k] \in Digits
  /\ OccursAt(g, <<" ", "o", "u", "t", " ", "o", "f">>, j + 1)

RatingMatches(g) == \E i, j \in 1..Len(g) : RatingMatchAt(g, i, j)

RECURSIVE Split(_, _)
Split(s, sep) ==
  IF \A k \in 1..Len(s) : s[k] # sep THEN <<s>>
  ELSE LET cut == CHOOSE k \in 1..Len(s) :
                    s[k] = sep /\ \A m \in 1..(k - 1) : s[m] # sep
       IN  <<SubSeq(s, 1, cut - 1)>> \o Split(SubSeq(s, cut + 1, Len(s)), sep)

\* C8: when no Content of the rows holds a newline, the text
\* extract_content returns, split on newline, is the list of the Content
\* values in row order, which is the order of extraction.
C8_JoinSplitRoundTrip ==
  (/\ runs["extract_content"] = 1
   /\ \A i \in 1..Len(df) : \A k \in 1..Len(df[i].Content) : df[i].Content[k] # "\n")
  => /\ Len(df) >= 1
     /\ Split(content, "\n") = [i \in 1..Len(df) |-> df[i].Content]
     /\ [i \in 1..Len(df) |-> df[i].Content] = [i \in 1..Len(review) |-> review[i].Content]

\* Two rows were joined, the second with empty Content.
C8_Witness ==
  /\ runs["extract_content"] = 1
  /\ Len(df) = 2
  /\ df[1].Content = text_loved
  /\ df[2].Content = <<>>
  /\ content = text_loved \o <<"\n">>

\* C9: every stage runs at most once; a stage runs only after the one
\* before it ran, bound its results and raised nothing; on a page with
\* fewer than two ReviewsList containers find_review raises, nothing is
\* bound, and no later stage runs.
C9_StagesInOrder ==
  /\ \A s \in StageSet : runs[s] \in {0, 1}
  /\ \A k \in 2..Len(Stages) :
       runs[Stages[k]] = 1 =>
         /\ runs[Stages[k - 1]] = 1
         /\ StageOutputs(Stages[k - 1]) \subseteq bound
         /\ raised \notin {Stages[m] : m \in 1..(k - 1)}
  /\ \A k \in 1..Len(Stages) :
       (StageOutputs(Stages[k]) # {} /\ StageOutputs(Stages[k]) \subseteq bound)
         => runs[Stages[k]] = 1
  /\ (runs["find_review"] = 1 /\ page.lists < 2)
       => /\ raised = "find_review"
          /\ pc = "aborted"
          /\ review = <<>> /\ bound = {}
          /\ \A k \in 3..Len(Stages) : runs[Stages[k]] = 0

\* A page with one ReviewsList container was fetched and find_review
\* raised on it.
C9_Witness ==
  /\ page.lists = 1
  /\ runs["fetch"] = 1 /\ runs["find_review"] = 1
  /\ raised = "find_review"
  /\ pc = "aborted"

\* A span on a singular word, which no pattern of find_review is in.
NotSingular(t) == Strip(t) \notin {span_1_review, span_1_follower}

\* C10: a span whose text is "1 review" or "1 follower" sets no field: the
\* profile is the one of the card without it, so neither text is ever a
\* Reviews Amount or Followers Amount; when no other span sets the field,
\* the Reviews Amount stays "Not Found" and cleans to 0, the Followers
\* Amount stays "Not Found" and review_cleaning raises, as for a card with
\* no followers span.
C10_SingularIgnored ==
  FoundReviews =>
    \A i \in 1..Len(review) :
      \A spans \in {page.cards[i].spans}, prof \in {review[i].Profile_Info} :
        /\ prof = profile_of([page.cards[i] EXCEPT !.spans = SelectSeq(spans, NotSingular)])
        /\ prof.Reviews_Amount # span_1_review
        /\ prof.Followers_Amount # span_1_follower
        /\ (\A k \in 1..Len(spans) : ~Contains(Strip(spans[k]), pat_reviews))
             => /\ prof.Reviews_Amount = NotFound
                /\ Cleaned => df[i].Reviews_Amount = Some(0)
        /\ (\A k \in 1..Len(spans) : ~Contains(Strip(spans[k]), pat_followers))
             => /\ prof.Followers_Amount = NotFound
                /\ runs["review_cleaning"] = 1 => raised = "review_cleaning"

\* A card shown with "1 review" and "3 followers" was cleaned: its
\* Reviews Amount is 0.
C10_Witness ==
  /\ Cleaned
  /\ page.cards[1].spans = <<span_1_review, span_3_followers>>
  /\ review[1].Profile_Info.Reviews_Amount = NotFound
  /\ df[1].Reviews_Amount = Some(0)

\* Python's str.replace(p, v): every occurrence of p is replaced.
RECURSIVE str_replace_all(_, _, _)
str_replace_all(s, p, v) ==
  IF p = <<>> \/ ~Contains(s, p) THEN s
  ELSE SubSeq(s, 1, Find(s, p) - 1) \o v
         \o str_replace_all(SubSeq(s, Find(s, p) + Len(p), Len(s)), p, v)

\* The integer a count text writes, its commas removed.
CountValue(n) == digits_value(str_replace_all(n, <<",">>, <<>>), 0)

\* C4, as the claim states it: a Reviews Amount "<n> reviews" or
\* "<n> review", n written with any number of comma groups, cleans to the
\* integer n, and "Not Found" to 0; the cleaned value is never negative.
C4_ReviewsCountStripsAllCommas ==
  runs["review_cleaning"] = 1 =>
    \A i \in 1..Len(review) :
      \A raw \in {review[i].Profile_Info.Reviews_Amount} :
        /\ \A n \in CountTexts, w \in {word_review, word_reviews} :
             raw = n \o w =>
               /\ reviews_amount_expr(raw) = Ok(Some(CountValue(n)))
               /\ Cleaned => df[i].Reviews_Amount = Some(CountValue(n))
        /\ raw = NotFound =>
             /\ reviews_amount_expr(raw) = Ok(Some(0))
             /\ Cleaned => df[i].Reviews_Amount = Some(0)
        /\ Cleaned => ~df[i].Reviews_Amount.null /\ df[i].Reviews_Amount.val >= 0

\* number * 1000 for the decimal number k.int "." k.frac of at most three
\* decimals: exact, so rounding leaves it as it is.
Thousands(k) ==
  digits_value(k.int \o k.frac \o [d \in 1..(3 - Len(k.frac)) |-> "0"], 0)

\* C5, as the claim states it: a Followers Amount "<number>k followers"
\* (k or K) cleans to round(number * 1000), and "<n> followers" or
\* "<n> follower", n possibly with commas, to the integer n.
C5_FollowersCountRounds ==
  runs["review_cleaning"] = 1 =>
    \A i \in 1..Len(review) :
      \A raw \in {review[i].Profile_Info.Followers_Amount} :
        /\ \A k \in KNumbers, c \in {<<"k">>, <<"K">>} :
             raw = KText(k) \o c \o word_followers =>
               /\ followers_amount_expr(raw) = Ok(Some(Thousands(k)))
               /\ Cleaned => df[i].Followers_Amount = Some(Thousands(k))
        /\ \A n \in CountTexts, w \in {word_follower, word_followers} :
             raw = n \o w =>
               /\ followers_amount_expr(raw) = Ok(Some(CountValue(n)))
               /\ Cleaned => df[i].Followers_Amount = Some(CountValue(n))

\* C7, as amended: the Rating of a row is null when the pattern
\* Rating (\d+) out of matches nowhere in the raw value, and otherwise the
\* integer N that the digits of the leftmost match write, whatever N is:
\* it lies in 0..5 only when the label says so, and review_cleaning raises
\* when N does not fit Int32.
C7_RatingIsTheLabelsNumber ==
  runs["review_cleaning"] = 1 =>
    \A r \in 1..Len(review) :
      \A g \in {review[r].Rating} :
        /\ ~RatingMatches(g) =>
             /\ rating_expr(g) = Ok(Null)
             /\ Cleaned => df[r].Rating = Null
        /\ \A i, j \in 1..Len(g) :
             (/\ RatingMatchAt(g, i, j)
              /\ \A i2, j2 \in 1..Len(g) : RatingMatchAt(g, i2, j2) => i <= i2)
             => \A n \in {digits_value(SubSeq(g, i, j), 0)} :
                  IF n < 0
                  THEN rating_expr(g) = Raise /\ raised = "review_cleaning"
                  ELSE /\ rating_expr(g) = Ok(Some(n))
                       /\ Cleaned => df[r].Rating = Some(n)

\* The label "Rating 7 out of 5" was cleaned: the Rating is 7.
C7_Witness ==
  /\ Cleaned
  /\ review[1].Rating = label_7_of_5
  /\ df[1].Rating = Some(7)

\* C7, as the claim states it: the Rating of every row of the table is
\* null or an integer in 0..5.
C7_RatingNullOrZeroToFive ==
  Cleaned =>
    \A r \in 1..Len(df) : df[r].Rating.null \/ df[r].Rating.val \in 0..5

====
